---- MODULE Spec2Model ----
(***************************************************************************)
(* Pique: a promise queue.  A queue instance is modelled by the array of   *)
(* queued entries (_promiseFunctionArray), the chain of driver steps hung  *)
(* on _globalPromise, and the promise returned to the caller of each push  *)
(* or unshift; a second instance of the same module is kept in one record. *)
(* The promise implementation is the configured LocalPromise:              *)
(* a then-callback never runs inside the call that registers it or that    *)
(* resolves its promise, it runs later as a job of its own, and a promise  *)
(* settles at most once.                                                   *)
(***************************************************************************)
EXTENDS Integers, Sequences, FiniteSets

\* Number of push/unshift calls explored on the queue.
MaxEntries == 4

\* Number of push/unshift calls explored where the promise constructor is
\* configured anew or units call their handles again.
MaxEntriesSmall == 3

\* Number of push/unshift calls explored on each of two queues side by side.
MaxEntriesPair == 2

\* Number of calls kept on record at a time where calls go on for ever.
MaxLive == 2

\* Number of further handle calls explored, over all units together, beyond
\* the one call each unit owes.
MaxExtraCalls == 1

\* The units of work (promiseFunction) handed to push/unshift that report a
\* plain value (those that report a thenable are ThenableUnits, those that
\* throw are Throwers).  call: the handle the unit calls, value: what it
\* passes to it.  Whether a unit calls
\* its handle inside its own invocation or later, from a timer, is its own
\* business and shows only when it is invoked.
Units ==
  { [call |-> "resolve", value |-> 10],
    [call |-> "reject",  value |-> 100] }

\* Units that pass a thenable to their handle instead of a plain value.
\* then: how that thenable ends, fulfilled or rejected with value, or never.
ThenableUnits ==
  { [call |-> "resolve", value |-> 20,  then |-> "fulfilled"],
    [call |-> "resolve", value |-> 30,  then |-> "rejected"],
    [call |-> "resolve", value |-> 40,  then |-> "never"],
    [call |-> "reject",  value |-> 200, then |-> "fulfilled"] }

\* What a unit calls its handle with: v, which is a plain value when then is
\* "none" and else a thenable that ends as then says.
Passed(unit) ==
  [then |-> (IF "then" \in DOMAIN unit THEN unit.then ELSE "none"), v |-> unit.value]

\* A unit that throws when it is invoked, before it calls any handle.
Throwers == { [call |-> "throw", value |-> 0] }

Throws(unit) == unit.call = "throw"

VARIABLES
  LocalPromise,         \* the module's LocalPromise: "Promise" when a constructor is set, else "undefined"
  lastCall,             \* how the latest push/unshift call ended: "returned" or "threw" ("none" before any)
  promiseFunctionArray, \* this._promiseFunctionArray: the queued entries, by call number
  globalPromise,        \* this._globalPromise: the chain of driver steps, one per then()
  future,               \* future[i]: the promise returned by the i-th push/unshift call
  fn,                   \* fn[i]: the unit passed in the i-th call
  how,                  \* how[i]: "push" or "unshift", the method of the i-th call
  handleCalls,          \* handleCalls[i]: how often the unit of the i-th call has called a handle
  log,                  \* the submissions and the invocations of units, in order
  other                 \* a second Pique instance: its array, chain, returned promises, units and handle calls

vars ==
  <<LocalPromise, lastCall, promiseFunctionArray, globalPromise, future, fn, how,
    handleCalls, log, other>>

\* The fields of the queue, the promises it has returned and the record of
\* what it was given and did.
queue == <<promiseFunctionArray, globalPromise, future, fn, how, handleCalls, log>>

\* ---------------------------------------------------------------- promises

PendingFuture == [state |-> "pending", value |-> 0]

\* Faulty promise: every call of its functions settles it anew.
SettleBug(p, call, value) ==
  IF call = "resolve" /\ value.then # "none"
    THEN [state |-> "locked", value |-> value.v, then |-> value.then]
    ELSE [state |-> (IF call = "resolve" THEN "fulfilled" ELSE "rejected"),
          value |-> value.v]

\* localResolve / localReject of a promise: only the first call counts, any
\* later call changes nothing.  reject settles the promise as rejected with
\* whatever it is given; resolve with a plain value settles it as
\* fulfilled; resolve with a thenable settles nothing yet: the promise is
\* locked to the thenable and stays unsettled until the thenable ends.
Settle(p, call, value) ==
  IF p.state # "pending" THEN p
  ELSE IF call = "resolve" /\ value.then # "none"
    THEN [state |-> "locked", value |-> value.v, then |-> value.then]
    ELSE [state |-> (IF call = "resolve" THEN "fulfilled" ELSE "rejected"),
          value |-> value.v]

\* globalResolve of a driver step's promise: resolves it once.
GlobalResolve(step) ==
  IF step.state = "running" THEN [step EXCEPT !.state = "resolved"] ELSE step

\* Faulty executor: a throw inside it resolves the step's promise.
GlobalRejectBug(step) ==
  IF step.state = "running" THEN [step EXCEPT !.state = "resolved"] ELSE step

\* A throw inside the executor of a step's promise, or a call of its reject
\* function, rejects it; the steps behind it are then never run.
GlobalReject(step) ==
  IF step.state = "running" THEN [step EXCEPT !.state = "rejected"] ELSE step

\* ---------------------------------------------------------------- the queue

\* Faulty push: the entry is put at the head.
PushFnBug(arr, value) == <<value>> \o arr

\* self._promiseFunctionArray.push(value)
PushFn(arr, value) == Append(arr, value)

\* Faulty unshift: the entry is put at the tail.
UnshiftFnBug(arr, value) == Append(arr, value)

\* self._promiseFunctionArray.unshift(value)
UnshiftFn(arr, value) == <<value>> \o arr

\* Faulty shift: pop(), the entry is taken off the tail.
ArrayShiftPop(arr) == [value |-> arr[Len(arr)], rest |-> SubSeq(arr, 1, Len(arr) - 1)]

\* Faulty shift: the head entry is read and left in the array.
ArrayShiftPeek(arr) == [value |-> Head(arr), rest |-> arr]

\* self._promiseFunctionArray.shift(): the entry taken off the head, and the
\* array that is left.
ArrayShift(arr) == [value |-> Head(arr), rest |-> Tail(arr)]

\* The step added by self._globalPromise.then(...): it waits for its turn.
WaitingStep == [state |-> "waiting", entry |-> 0]

\* Faulty chaining: every step is hung on the constructor's resolved promise
\* instead of on the step before it.
StepReadyBug(chain, k) ==
  /\ k \in 1..Len(chain)
  /\ chain[k].state = "waiting"

\* Faulty chaining: one chain for all instances, so that a step also waits
\* for the unit that any queue is running.
StepReadyShared(chain, k) ==
  /\ k \in 1..Len(chain)
  /\ chain[k].state = "waiting"
  /\ k > 1 => chain[k - 1].state = "resolved"
  /\ \A j \in 1..Len(globalPromise) : globalPromise[j].state # "running"
  /\ \A j \in 1..Len(other.globalPromise) : other.globalPromise[j].state # "running"

\* The callback given to then() runs only once the promise it was hung on
\* (the previous step's, or the resolved promise of the constructor) is
\* fulfilled.
StepReady(chain, k) ==
  /\ k \in 1..Len(chain)
  /\ chain[k].state = "waiting"
  /\ k > 1 => chain[k - 1].state = "resolved"

\* Faulty step: it hands the unit the localResolve/localReject of the call
\* that hung the step on the chain.
LocalOfBug(k, e) == k

\* The entry whose localResolve/localReject step k hands to the unit it
\* invokes: those of nextPromise, the entry e it has just shifted off, not
\* those of the call that hung step k on the chain.
LocalOf(k, e) == e

\* Faulty pairing: reject is paired with the reject function of the step's
\* promise.
GlobalFnBug(call) == call

\* Which function of the step's promise each handle given to the unit is
\* paired with by finishPromise: globalResolve, for resolve and for reject.
GlobalFn(call) == "resolve"

\* nextPromise.fn(...) is entered by step k for entry e.
Invoke(chain, k, e) == [chain EXCEPT ![k] = [state |-> "running", entry |-> e]]

\* Faulty finishPromise: localFn is not called.
FinishLocalBug(fut, k, e, unit) == fut

\* finishPromise(localFn, globalResolveFn)(value), first half: localFn(value),
\* called by the unit of entry e that step k invoked.
FinishLocal(fut, k, e, unit) ==
  [fut EXCEPT ![LocalOf(k, e)] = Settle(@, unit.call, Passed(unit))]

\* finishPromise(localFn, globalResolveFn)(value), second half:
\* globalResolveFn() on the promise of step k.
FinishGlobal(chain, k, call) ==
  IF GlobalFn(call) = "resolve"
    THEN [chain EXCEPT ![k] = GlobalResolve(@)]
    ELSE [chain EXCEPT ![k] = GlobalReject(@)]

Event(ev, id) == [ev |-> ev, id |-> id]

\* Read off the log.
Events(ev) == { i \in 1..Len(log) : log[i].ev = ev }
Invoked(e) == \E i \in Events("run") : log[i].id = e
Reported(e) == handleCalls[e] > 0

\* Faulty handles: they resolve the promise of whichever step ran last.
StepOfBug(e) ==
  CHOOSE k \in 1..Len(globalPromise) :
    /\ globalPromise[k].state # "waiting"
    /\ \A j \in (k + 1)..Len(globalPromise) : globalPromise[j].state = "waiting"

\* The step whose promise the handles given to entry e resolve.
StepOf(e) == CHOOSE k \in 1..Len(globalPromise) : globalPromise[k].entry = e

\* new Pique(): an empty array and a chain with no step yet.
NewPique ==
  [promiseFunctionArray |-> <<>>, globalPromise |-> <<>>, future |-> <<>>,
   fn |-> <<>>, handleCalls |-> <<>>]

Init ==
  /\ other = NewPique
  /\ LocalPromise = "Promise"
  /\ lastCall = "none"
  /\ promiseFunctionArray = <<>>
  /\ globalPromise = <<>>
  /\ future = <<>>
  /\ fn = <<>>
  /\ how = <<>>
  /\ handleCalls = <<>>
  /\ log = <<>>

\* Faulty guard: the check of LocalPromise is missing.
UnconfiguredBug(lp) == FALSE

\* if (!LocalPromise)
Unconfigured(lp) == lp = "undefined"

\* Faulty _changeQueue: when nothing waits and nothing runs, it invokes the
\* unit inside the call instead of leaving it to a driver step.
ChangeQueueBug(unit, method) ==
  /\ Len(future) < MaxEntries
  /\ LET id == Len(future) + 1
         idle == /\ promiseFunctionArray = <<>>
                 /\ \A k \in 1..Len(globalPromise) : globalPromise[k].state = "resolved"
     IN /\ future' = Append(future, PendingFuture)
        /\ promiseFunctionArray' =
             IF idle THEN promiseFunctionArray
             ELSE IF method = "push" THEN PushFn(promiseFunctionArray, id)
                                     ELSE UnshiftFn(promiseFunctionArray, id)
        /\ globalPromise' =
             Append(globalPromise,
                    IF idle THEN [state |-> "running", entry |-> id] ELSE WaitingStep)
        /\ fn' = Append(fn, unit)
        /\ how' = Append(how, method)
        /\ handleCalls' = Append(handleCalls, 0)
        /\ log' = IF idle THEN log \o <<Event(method, id), Event("run", id)>>
                          ELSE Append(log, Event(method, id))
  /\ lastCall' = "returned"
  /\ UNCHANGED <<LocalPromise, other>>

\* Pique.prototype._changeQueue(fn, unshiftOrPushFn): it throws when no
\* promise constructor is set; otherwise a new promise for the caller, the
\* entry put into the array, one more step hung on the chain.
ChangeQueue(unit, method) ==
  IF Unconfigured(LocalPromise)
    THEN /\ lastCall' = "threw"
         /\ UNCHANGED <<LocalPromise, queue, other>>
    ELSE /\ Len(future) < MaxEntries
         /\ LET id == Len(future) + 1 IN
              /\ future' = Append(future, PendingFuture)
              /\ promiseFunctionArray' =
                   IF method = "push" THEN PushFn(promiseFunctionArray, id)
                                      ELSE UnshiftFn(promiseFunctionArray, id)
              /\ globalPromise' = Append(globalPromise, WaitingStep)
              /\ fn' = Append(fn, unit)
              /\ how' = Append(how, method)
              /\ handleCalls' = Append(handleCalls, 0)
              /\ log' = Append(log, Event(method, id))
         /\ lastCall' = "returned"
         /\ UNCHANGED <<LocalPromise, other>>

\* Pique.prototype.push(fn)
Push == \E unit \in Units : ChangeQueue(unit, "push")

\* Pique.prototype.unshift(fn)
Unshift == \E unit \in Units : ChangeQueue(unit, "unshift")

\* One driver step: the callback of self._globalPromise.then(...) together
\* with the executor of the promise it returns.  The head entry is shifted
\* off the array and its unit is invoked; a synchronous unit calls its handle
\* before the invocation returns.  The step throws, and its promise is
\* rejected, when LocalPromise is no constructor (new LocalPromise throws
\* before anything is shifted), when the array is empty (nextPromise is
\* undefined and nextPromise.fn throws), or when the unit itself throws out
\* of its invocation, after the shift.
DriverStep ==
  \E k \in 1..Len(globalPromise), sync \in BOOLEAN :
    /\ StepReady(globalPromise, k)
    /\ IF LocalPromise = "undefined" \/ promiseFunctionArray = <<>>
         THEN
              /\ globalPromise' =
                   [globalPromise EXCEPT ![k] = GlobalReject(Invoke(globalPromise, k, 0)[k])]
              /\ UNCHANGED <<promiseFunctionArray, future, handleCalls, log>>
         ELSE LET shifted == ArrayShift(promiseFunctionArray)
                  e == shifted.value
                  unit == fn[e]
                  entered == Invoke(globalPromise, k, e)
              IN /\ promiseFunctionArray' = shifted.rest
                 /\ IF Throws(unit)
                      THEN /\ globalPromise' = [entered EXCEPT ![k] = GlobalReject(@)]
                           /\ UNCHANGED <<future, handleCalls>>
                      ELSE IF sync
                      THEN /\ future' = FinishLocal(future, k, e, unit)
                           /\ globalPromise' = FinishGlobal(entered, k, unit.call)
                           /\ handleCalls' = [handleCalls EXCEPT ![e] = @ + 1]
                      ELSE /\ globalPromise' = entered
                           /\ UNCHANGED <<future, handleCalls>>
                 /\ log' = Append(log, Event("run", e))
    /\ UNCHANGED <<LocalPromise, lastCall, fn, how, other>>

\* A unit that did not call its handle inside its invocation calls it now,
\* from its timer: finishPromise(localFn, globalResolveFn)(value).
Report(e) ==
  /\ e \in 1..Len(future)
  /\ Invoked(e)
  /\ ~Reported(e)
  /\ ~Throws(fn[e])
  /\ future' = FinishLocal(future, StepOf(e), e, fn[e])
  /\ globalPromise' = FinishGlobal(globalPromise, StepOf(e), fn[e].call)
  /\ handleCalls' = [handleCalls EXCEPT ![e] = @ + 1]
  /\ UNCHANGED <<LocalPromise, lastCall, promiseFunctionArray, fn, how, log, other>>

Next ==
  \/ Push
  \/ Unshift
  \/ DriverStep
  \/ \E e \in 1..MaxEntries : Report(e)

Spec == Init /\ [][Next]_vars

\* Pique.configure(promiseCtor)
Configure(promiseCtor) ==
  /\ LocalPromise' = promiseCtor
  /\ UNCHANGED <<lastCall, queue, other>>

\* A step hung on a rejected step: its callback is never run, then() passes
\* the rejection on to the step's own promise.
PassRejection ==
  \E k \in 2..Len(globalPromise) :
    /\ globalPromise[k].state = "waiting"
    /\ globalPromise[k - 1].state = "rejected"
    /\ globalPromise' = [globalPromise EXCEPT ![k] = [state |-> "rejected", entry |-> 0]]
    /\ UNCHANGED <<LocalPromise, lastCall, promiseFunctionArray, future, fn, how,
                   handleCalls, log, other>>

\* A call that is explored: one more entry fits, or the call will throw.
Small == Len(future) < MaxEntriesSmall \/ LocalPromise = "undefined"

\* The queue in a process that also calls Pique.configure, with a
\* constructor or with undefined (global.Promise where there is none).
ConfigNext ==
  \/ Small /\ Push
  \/ Small /\ Unshift
  \/ DriverStep
  \/ PassRejection
  \/ \E e \in 1..MaxEntries : Report(e)
  \/ \E promiseCtor \in {"Promise", "undefined"} : Configure(promiseCtor)

ConfigSpec == Init /\ [][ConfigNext]_vars

\* push or unshift of a unit that throws.
SubmitThrower ==
  \E unit \in Throwers, method \in {"push", "unshift"} : ChangeQueue(unit, method)

\* The queue with units that report and units that throw.
ThrowNext ==
  \/ Small /\ Push
  \/ Small /\ Unshift
  \/ Small /\ SubmitThrower
  \/ DriverStep
  \/ PassRejection
  \/ \E e \in 1..MaxEntries : Report(e)

ThrowSpec == Init /\ [][ThrowNext]_vars

\* The handle calls made so far beyond the first of each unit.
ExtraCalls == Cardinality(Events("again"))

\* A unit that has reported calls a handle once more, the same or the
\* other one, with whatever value: finishPromise(localFn, globalResolveFn)
\* of either handle runs again on the same entry and the same step.
ReportAgain(e) ==
  /\ e \in 1..Len(future)
  /\ Reported(e)
  /\ ExtraCalls < MaxExtraCalls
  /\ \E again \in Units :
       /\ future' = FinishLocal(future, StepOf(e), e, again)
       /\ globalPromise' = FinishGlobal(globalPromise, StepOf(e), again.call)
  /\ handleCalls' = [handleCalls EXCEPT ![e] = @ + 1]
  /\ log' = Append(log, Event("again", e))
  /\ UNCHANGED <<LocalPromise, lastCall, promiseFunctionArray, fn, how, other>>

\* The queue with units that call their handles more than once.
RepeatNext ==
  \/ Small /\ Push
  \/ Small /\ Unshift
  \/ DriverStep
  \/ \E e \in 1..MaxEntries : Report(e)
  \/ \E e \in 1..MaxEntries : ReportAgain(e)

RepeatSpec == Init /\ [][RepeatNext]_vars

\* ---------------------------------------------------------------- thenables

\* push or unshift of a unit that passes a thenable to its handle.
SubmitThenable ==
  \E unit \in ThenableUnits, method \in {"push", "unshift"} : ChangeQueue(unit, method)

\* The thenable that the promise of entry e is locked to ends: the promise
\* settles the way the thenable did.
ThenableSettles(e) ==
  /\ e \in 1..Len(future)
  /\ future[e].state = "locked"
  /\ future[e].then \in {"fulfilled", "rejected"}
  /\ future' = [future EXCEPT ![e] = [state |-> future[e].then, value |-> future[e].value]]
  /\ UNCHANGED <<LocalPromise, lastCall, promiseFunctionArray, globalPromise, fn, how,
                 handleCalls, log, other>>

\* The queue with units that report plain values and units that report
\* thenables.
ThenableNext ==
  \/ Small /\ Push
  \/ Small /\ Unshift
  \/ Small /\ SubmitThenable
  \/ DriverStep
  \/ \E e \in 1..MaxEntries : Report(e)
  \/ \E e \in 1..MaxEntries : ThenableSettles(e)

ThenableSpec == Init /\ [][ThenableNext]_vars

\* ---------------------------------------------------------------- a queue that is never done

Front(seq) == SubSeq(seq, 1, Len(seq) - 1)

\* The queue keeps nothing of an entry that has run: shift() took it off the
\* array and _globalPromise has moved on from its step.  Once the latest
\* call's unit has reported and its promise has ended (settled, or locked to
\* a thenable that never ends), the call is dropped from the records and its
\* number is given to the next call, so that calls can go on for ever.
Forget ==
  LET e == Len(future) IN
    /\ e > 0
    /\ Reported(e)
    /\ \/ future[e].state \in {"fulfilled", "rejected"}
       \/ future[e].state = "locked" /\ future[e].then = "never"
    /\ future' = Front(future)
    /\ fn' = Front(fn)
    /\ how' = Front(how)
    /\ handleCalls' = Front(handleCalls)
    /\ globalPromise' =
         SubSeq(globalPromise, 1, StepOf(e) - 1)
           \o SubSeq(globalPromise, StepOf(e) + 1, Len(globalPromise))
    /\ log' = SelectSeq(log, LAMBDA event : event.id # e)
    /\ UNCHANGED <<LocalPromise, lastCall, promiseFunctionArray, other>>

\* The queue taking calls without end: units that report plain values or
\* thenables, submitted at any time.
FairNext ==
  \/ Len(future) < MaxLive /\ Push
  \/ Len(future) < MaxLive /\ Unshift
  \/ Len(future) < MaxLive /\ SubmitThenable
  \/ DriverStep
  \/ \E e \in 1..MaxEntries : Report(e)
  \/ \E e \in 1..MaxEntries : ThenableSettles(e)
  \/ Forget

\* The job queue of the promise implementation runs every callback that is
\* ready, every unit that was started calls its handle, and a thenable that
\* is to end does end.  Nothing obliges anyone to submit, or to stop
\* submitting.
FairSpec ==
  /\ Init /\ [][FairNext]_vars
  /\ WF_vars(DriverStep)
  /\ \A e \in 1..MaxEntries : WF_vars(Report(e))
  /\ \A e \in 1..MaxEntries : WF_vars(ThenableSettles(e))

\* ---------------------------------------------------------------- a second instance

\* The step of the second instance whose promise the handles given to its
\* entry e resolve.
OtherStepOf(e) ==
  CHOOSE k \in 1..Len(other.globalPromise) : other.globalPromise[k].entry = e

OtherInvoked(e) == \E k \in 1..Len(other.globalPromise) : other.globalPromise[k].entry = e
OtherReported(e) == other.handleCalls[e] > 0

\* _changeQueue(fn, unshiftOrPushFn) with this the second instance: the same
\* check of the module's LocalPromise, then the entry and the step go to
\* that instance's own array and chain.
OtherChangeQueue(unit, method) ==
  IF Unconfigured(LocalPromise)
    THEN /\ lastCall' = "threw"
         /\ UNCHANGED <<LocalPromise, queue, other>>
    ELSE /\ Len(other.future) < MaxEntriesPair
         /\ LET id == Len(other.future) + 1 IN
              other' =
                [future |-> Append(other.future, PendingFuture),
                 promiseFunctionArray |->
                   IF method = "push" THEN PushFn(other.promiseFunctionArray, id)
                                      ELSE UnshiftFn(other.promiseFunctionArray, id),
                 globalPromise |-> Append(other.globalPromise, WaitingStep),
                 fn |-> Append(other.fn, unit),
                 handleCalls |-> Append(other.handleCalls, 0)]
         /\ lastCall' = "returned"
         /\ UNCHANGED <<LocalPromise, queue>>

OtherPush == \E unit \in Units : OtherChangeQueue(unit, "push")

OtherUnshift == \E unit \in Units : OtherChangeQueue(unit, "unshift")

\* One driver step of the second instance: self is that instance, so the
\* entry is shifted off its array and the step's promise is on its chain.
OtherDriverStep ==
  \E k \in 1..Len(other.globalPromise), sync \in BOOLEAN :
    /\ StepReady(other.globalPromise, k)
    /\ IF LocalPromise = "undefined" \/ other.promiseFunctionArray = <<>>
         THEN other' =
                [other EXCEPT !.globalPromise =
                   [@ EXCEPT ![k] = GlobalReject(Invoke(other.globalPromise, k, 0)[k])]]
         ELSE LET shifted == ArrayShift(other.promiseFunctionArray)
                  e == shifted.value
                  unit == other.fn[e]
                  entered == Invoke(other.globalPromise, k, e)
              IN IF Throws(unit)
                   THEN other' =
                          [other EXCEPT !.promiseFunctionArray = shifted.rest,
                                        !.globalPromise = [entered EXCEPT ![k] = GlobalReject(@)]]
                   ELSE IF sync
                   THEN other' =
                          [other EXCEPT !.promiseFunctionArray = shifted.rest,
                                        !.future = FinishLocal(@, k, e, unit),
                                        !.globalPromise = FinishGlobal(entered, k, unit.call),
                                        !.handleCalls = [@ EXCEPT ![e] = @ + 1]]
                   ELSE other' =
                          [other EXCEPT !.promiseFunctionArray = shifted.rest,
                                        !.globalPromise = entered]
    /\ UNCHANGED <<LocalPromise, lastCall, queue>>

\* A unit of the second instance that did not call its handle inside its
\* invocation calls it now.
OtherReport(e) ==
  /\ e \in 1..Len(other.future)
  /\ OtherInvoked(e)
  /\ ~OtherReported(e)
  /\ ~Throws(other.fn[e])
  /\ other' =
       [other EXCEPT !.future = FinishLocal(@, OtherStepOf(e), e, other.fn[e]),
                     !.globalPromise = FinishGlobal(@, OtherStepOf(e), other.fn[e].call),
                     !.handleCalls = [@ EXCEPT ![e] = @ + 1]]
  /\ UNCHANGED <<LocalPromise, lastCall, queue>>

\* Two instances in one process, each taking calls and running its units.
PairNext ==
  \/ Len(future) < MaxEntriesPair /\ Push
  \/ Len(future) < MaxEntriesPair /\ Unshift
  \/ DriverStep
  \/ \E e \in 1..MaxEntries : Report(e)
  \/ OtherPush
  \/ OtherUnshift
  \/ OtherDriverStep
  \/ \E e \in 1..MaxEntries : OtherReport(e)

PairSpec == Init /\ [][PairNext]_vars

\* ---------------------------------------------------------------- reading the log

Submitted == 1..Len(future)
Submissions == Events("push") \cup Events("unshift")

\* Where in the log entry e was submitted, and where it was invoked.
SubAt(e) == CHOOSE i \in Submissions : log[i].id = e
RunAt(e) == CHOOSE i \in Events("run") : log[i].id = e

\* Entry e is executing: invoked by the driver, no handle called yet.
Executing(e) == Invoked(e) /\ ~Reported(e)

Settled(e) == future[e].state \in {"fulfilled", "rejected"}

\* The entries in the order of the events of the kinds evs.
IdsOf(evs) ==
  LET sel == SelectSeq(log, LAMBDA x : x.ev \in evs)
  IN [i \in 1..Len(sel) |-> sel[i].id]
RunOrder == IdsOf({"run"})

AllPush == \A e \in Submitted : how[e] = "push"
AllUnshift == \A e \in Submitted : how[e] = "unshift"

\* ---------------------------------------------------------------- claims

\* C1: mutual exclusion.  In every reachable state at most one entry is
\* executing (invoked by the driver and not yet reported).
C1_MutualExclusion ==
  Cardinality({ e \in Submitted : Executing(e) }) <= 1

\* One unit is executing while another entry waits in the array and an
\* earlier one has already reported.
C1_Witness ==
  \E e \in Submitted :
    /\ Executing(e)
    /\ promiseFunctionArray # <<>>
    /\ \E d \in Submitted : Reported(d)

\* C2: with push-only submissions the units are started in the order
\* submitted; the outcomes arrive in the order submitted (an entry has its
\* outcome only when every entry submitted before it has); and a unit is
\* started only when the unit before it has called its handle.
C2_PushOnlyInOrder ==
  AllPush =>
    /\ \A i \in 1..Len(RunOrder) : RunOrder[i] = i
    /\ \A e \in Submitted :
         (Reported(e) \/ Settled(e)) =>
           \A d \in 1..e : Reported(d) /\ Settled(d)
    /\ \A e \in Submitted :
         (e > 1 /\ Invoked(e)) => (Reported(e - 1) /\ Settled(e - 1))

\* Three pushed units have run to their outcome, a success and a failure
\* among them, and a fourth is executing.
C2_Witness ==
  /\ AllPush
  /\ Cardinality({ e \in Submitted : Reported(e) }) >= 3
  /\ \E e \in Submitted : future[e].state = "fulfilled"
  /\ \E e \in Submitted : future[e].state = "rejected"
  /\ \E e \in Submitted : Executing(e)

\* C3: a unit submitted with push is invoked only after every unit
\* submitted before it, by push or by unshift, has been invoked and has
\* reported its outcome.
C3_PushAfterEarlier ==
  \A j \in Submitted :
    (how[j] = "push" /\ Invoked(j)) =>
      \A i \in 1..(j - 1) : Invoked(i) /\ RunAt(i) < RunAt(j) /\ Reported(i)

\* A pushed unit has been invoked although an unshift was made before it
\* and another submission came in while it was still waiting.
C3_Witness ==
  \E i, j, l \in Submitted :
    /\ i < j /\ j < l
    /\ how[i] = "unshift" /\ how[j] = "push"
    /\ Invoked(j)
    /\ SubAt(l) < RunAt(j)

\* C4: with unshift-only submissions, a unit submitted while an earlier one
\* is still waiting is invoked before that earlier one.
C4_UnshiftOnlyLifo ==
  AllUnshift =>
    \A i, j \in Submitted :
      (i < j /\ Invoked(i) /\ SubAt(j) < RunAt(i)) =>
        (Invoked(j) /\ RunAt(j) < RunAt(i))

\* Three unshifted units made while nothing had run yet have all been
\* invoked.
C4_Witness ==
  /\ AllUnshift
  /\ \E i, j, l \in Submitted :
       /\ i < j /\ j < l
       /\ Invoked(i)
       /\ SubAt(l) < RunAt(i) /\ SubAt(l) < RunAt(j) /\ SubAt(l) < RunAt(l)

\* The submissions were all made before any unit was invoked.
AllBeforeRun == \A i \in Submissions, j \in Events("run") : i < j

Reverse(seq) == [i \in 1..Len(seq) |-> seq[Len(seq) + 1 - i]]
CallsBy(method) == SelectSeq([e \in Submitted |-> e], LAMBDA e : how[e] = method)

\* C5: when every submission was made before any unit ran, the units run
\* in the order: the unshifted ones, last submitted first, then the pushed
\* ones, first submitted first.  push A, unshift B, push C, unshift D runs
\* as D, B, A, C.
C5_MixedOrder ==
  AllBeforeRun =>
    /\ RunOrder = SubSeq(Reverse(CallsBy("unshift")) \o CallsBy("push"), 1, Len(RunOrder))
    /\ (how = <<"push", "unshift", "push", "unshift">> /\ Len(RunOrder) = Len(how))
         => RunOrder = <<4, 2, 1, 3>>

\* push A, unshift B, push C, unshift D were made before anything ran, and
\* all four have run.
C5_Witness ==
  /\ how = <<"push", "unshift", "push", "unshift">>
  /\ AllBeforeRun
  /\ Len(RunOrder) = Len(how)

\* No unit was invoked and no unshift was made between log positions a and b.
Undisturbed(a, b) ==
  \A m \in (a + 1)..(b - 1) : log[m].ev \notin {"run", "unshift"}

\* C6: an unshifted unit runs before every pushed unit that was submitted
\* before it and had not been started when it was submitted; and it is the
\* very next unit the driver invokes, unless another unshift is made first.
C6_UnshiftFirst ==
  \A u \in Submitted :
    how[u] = "unshift" =>
      /\ \A q \in 1..(u - 1) :
           (how[q] = "push" /\ Invoked(q) /\ SubAt(u) < RunAt(q)) =>
             (Invoked(u) /\ RunAt(u) < RunAt(q))
      /\ \A i \in Events("run") :
           (SubAt(u) < i /\ Undisturbed(SubAt(u), i)) => log[i].id = u

\* An unshift was made after one unit had been invoked and while two
\* pushed units were waiting; the unshifted unit and then a pushed one have
\* been invoked.
C6_Witness ==
  \E x, q, r, u \in Submitted :
    /\ x < q /\ q < r /\ r < u
    /\ how[q] = "push" /\ how[r] = "push" /\ how[u] = "unshift"
    /\ Invoked(x) /\ RunAt(x) < SubAt(u)
    /\ Invoked(u) /\ Invoked(q) /\ SubAt(u) < RunAt(q)

\* How many times the driver has invoked the unit of entry e.
Invocations(e) == Cardinality({ i \in Events("run") : log[i].id = e })

\* C7: the unit of every submitted entry is invoked at most once.
C7_AtMostOnce == \A e \in Submitted : Invocations(e) <= 1

\* Pushed and unshifted entries have all been invoked and the chain has no
\* step left to run.
C7_Witness ==
  /\ Len(future) >= 3
  /\ ~AllPush /\ ~AllUnshift
  /\ \A e \in Submitted : Invocations(e) = 1 /\ Reported(e)
  /\ promiseFunctionArray = <<>>

\* C8 as stated: no starvation.  When every ready callback is run and every
\* started unit calls a handle, each entry that is submitted is eventually
\* invoked and its promise eventually settles.  It fails when unshift calls
\* never stop, and for a unit that resolves with a thenable that never ends.
C8_NoStarvation ==
  \A e \in 1..MaxEntries :
    (e \in Submitted) ~> (e \in Submitted /\ Invoked(e) /\ Settled(e))

\* A call of unshift is made in this step.
UnshiftMade == Len(how') = Len(how) + 1 /\ how'[Len(how')] = "unshift"

\* The promise of entry e has ended: it is settled, or it is locked to a
\* thenable that never ends.
Ended(e) ==
  \/ Settled(e)
  \/ future[e].state = "locked" /\ future[e].then = "never"

\* C8, amended: no starvation once unshift calls stop.  When every ready
\* callback is run, every started unit calls a handle and only finitely
\* many unshift calls are made, each entry that is submitted, by push or by
\* unshift, is eventually invoked, and its promise eventually settles unless
\* the unit resolved it with a thenable that never ends.
C8_NoStarvationAmended ==
  \/ []<><<UnshiftMade>>_vars
  \/ \A e \in 1..MaxEntries :
       (e \in Submitted) ~> (e \in Submitted /\ Invoked(e) /\ Ended(e))

\* An entry was pushed and an entry was put ahead of it by unshift while it
\* waited; both have run, the later one first, and both promises have
\* ended, the later one's settled.
C8_Witness ==
  \E a, b \in Submitted :
    /\ how[a] = "push" /\ how[b] = "unshift"
    /\ SubAt(a) < SubAt(b)
    /\ Invoked(a) /\ Invoked(b)
    /\ SubAt(b) < RunAt(b) /\ RunAt(b) < RunAt(a)
    /\ Reported(a) /\ Ended(a)
    /\ Reported(b) /\ Settled(b)

\* The promise a unit settles: fulfilled or rejected by the handle it calls,
\* with the value it passes.
OutcomeOf(unit) ==
  [state |-> (IF unit.call = "resolve" THEN "fulfilled" ELSE "rejected"),
   value |-> unit.value]

\* C9: the promise returned by a push or unshift call settles only when the
\* unit passed in that call reports, and with that unit's outcome and
\* value.
C9_OwnOutcome ==
  \A e \in Submitted :
    /\ Settled(e) => (Reported(e) /\ future[e] = OutcomeOf(fn[e]))
    /\ Reported(e) => Settled(e)

\* A step hung on the chain by one call has popped the entry of another
\* call, whose unit differs from the first call's, and both have reported.
C9_Witness ==
  \E k \in 1..Len(globalPromise) :
    LET e == globalPromise[k].entry
    IN /\ e # 0 /\ e # k
       /\ fn[e] # fn[k]
       /\ Reported(e) /\ Settled(e)
       /\ Reported(k) /\ Settled(k)

\* The array after the first n events of the log, whatever the units
\* reported: a push appends, an unshift prepends, an invocation takes the
\* head.
RECURSIVE Replay(_)
Replay(n) ==
  IF n = 0 THEN <<>>
  ELSE LET arr == Replay(n - 1)
           x == log[n]
       IN CASE x.ev = "push" -> Append(arr, x.id)
            [] x.ev = "unshift" -> <<x.id>> \o arr
            [] x.ev = "run" -> Tail(arr)
            [] OTHER -> arr

\* C10: a failure lets the driver advance exactly as a success does: once
\* a unit has reported, by either handle, the promise of its step is
\* resolved and the next step, if one is waiting, is ready to run; and the
\* order of invocation is the one fixed by the submissions and the times of
\* the steps alone, whichever handle each unit called.
C10_FailureAdvances ==
  /\ \A e \in Submitted :
       Reported(e) =>
         LET k == StepOf(e)
         IN /\ globalPromise[k].state = "resolved"
            /\ (k < Len(globalPromise) /\ globalPromise[k + 1].state = "waiting")
                 => ENABLED DriverStep
  /\ \A i \in Events("run") : log[i].id = Head(Replay(i - 1))

\* A unit reported failure; a unit pushed and a unit unshifted after that
\* unit was submitted were invoked after the failure.
C10_Witness ==
  \E e, q, u \in Submitted :
    /\ e < q /\ e < u
    /\ how[q] = "push" /\ how[u] = "unshift"
    /\ Reported(e) /\ future[e].state = "rejected"
    /\ Invoked(e) /\ Invoked(q) /\ Invoked(u)
    /\ RunAt(e) < RunAt(q) /\ RunAt(e) < RunAt(u)

\* The unit of entry e calls its fail handle in this step.
FailsNow(e) == fn[e].call = "reject" /\ handleCalls'[e] > handleCalls[e]

\* The array without entry e.
Without(arr, e) == SelectSeq(arr, LAMBDA x : x # e)

\* C11: failure is local.  In the step in which a unit calls its fail
\* handle, the promise of its own entry becomes rejected, the promise of
\* every other entry stays as it was, and the array keeps every entry it
\* held (it loses the failing entry itself when the unit fails inside the
\* step that shifted it off).
C11_FailureLocal ==
  [][\A e \in Submitted :
       FailsNow(e) =>
         /\ future'[e].state = "rejected"
         /\ \A d \in Submitted \ {e} : future'[d] = future[d]
         /\ promiseFunctionArray' = Without(promiseFunctionArray, e)]_vars

\* A unit has failed while the promise of another entry is fulfilled, the
\* promise of a third is pending and that third entry waits in the array.
C11_Witness ==
  \E e, d, w \in Submitted :
    /\ future[e].state = "rejected" /\ Reported(e)
    /\ future[d].state = "fulfilled"
    /\ future[w].state = "pending"
    /\ \E i \in 1..Len(promiseFunctionArray) : promiseFunctionArray[i] = w

\* Entry e waits in the array.
InArray(e) == \E i \in 1..Len(promiseFunctionArray) : promiseFunctionArray[i] = e

\* A unit has been invoked and has called no handle yet.
Stalled == \E e \in Submitted : Executing(e)

\* No unit calls a handle in this step.
NoReportNow == \A e \in Submitted : handleCalls'[e] = handleCalls[e]

\* C13: stall.  While a started unit has called neither handle, no driver
\* step can run, push and unshift are still accepted, and every step in
\* which that unit does not report starts no unit, settles no promise and
\* leaves every waiting entry in the array; so if the unit never reports,
\* this lasts for ever.
C13_Stall ==
  /\ [](Stalled =>
          /\ ~ENABLED DriverStep
          /\ Len(future) < MaxEntries => (ENABLED Push /\ ENABLED Unshift))
  /\ [][(Stalled /\ NoReportNow) =>
          /\ Stalled'
          /\ RunOrder' = RunOrder
          /\ \A d \in Submitted : future'[d] = future[d]
          /\ \A d \in Submitted : InArray(d) => InArray(d)']_vars

\* A unit is executing without having reported; an entry submitted before
\* it was started and an entry submitted after it was started wait in the
\* array with pending promises.
C13_Witness ==
  \E e, b, a \in Submitted :
    /\ Executing(e)
    /\ InArray(b) /\ SubAt(b) < RunAt(e) /\ ~Settled(b)
    /\ InArray(a) /\ RunAt(e) < SubAt(a) /\ ~Settled(a)

\* Entry e is in the sequence arr; the record l holds an invocation of e.
InSeq(arr, e) == \E i \in 1..Len(arr) : arr[i] = e
RunIn(l, e) == \E i \in 1..Len(l) : l[i] = Event("run", e)

\* C14: push and unshift do not invoke the unit inside the call.  In the
\* step of a submission the new entry is put into the array, no unit is
\* invoked, the new unit has called no handle and its promise is pending;
\* and an entry is invoked only in a step that is no submission, by a
\* driver step that was waiting.
C14_Deferred ==
  /\ [][Len(future') > Len(future) =>
          /\ Len(future') = Len(future) + 1
          /\ InSeq(promiseFunctionArray', Len(future'))
          /\ ~RunIn(log', Len(future'))
          /\ Cardinality(Events("run")') = Cardinality(Events("run"))
          /\ handleCalls'[Len(future')] = 0
          /\ future'[Len(future')].state = "pending"]_vars
  /\ [][\A e \in Submitted :
          (~RunIn(log, e) /\ RunIn(log', e)) =>
            /\ Len(future') = Len(future)
            /\ InSeq(promiseFunctionArray, e)
            /\ \E k \in 1..Len(globalPromise) :
                 /\ globalPromise[k].state = "waiting"
                 /\ globalPromise'[k].entry = e]_vars

\* A submission has just been made to a queue that was empty and idle
\* (every earlier unit had reported): the new entry is alone in the array
\* and has not been invoked.
C14_Witness ==
  /\ Len(future) >= 2
  /\ log[Len(log)].ev \in {"push", "unshift"}
  /\ log[Len(log)].id = Len(future)
  /\ \A d \in 1..(Len(future) - 1) : Reported(d)
  /\ promiseFunctionArray = <<Len(future)>>
  /\ ~Invoked(Len(future))

\* C15: with no promise constructor set, a push or unshift call throws at
\* the call and adds no entry and no step: the array, the chain and all the
\* rest of the queue are as before the call.  A call returns normally, with
\* one more entry, only when a constructor is set.
C15_Unconfigured ==
  /\ [](LocalPromise = "undefined" => (ENABLED Push /\ ENABLED Unshift))
  /\ [][(LocalPromise = "undefined" /\ (Push \/ Unshift)) =>
          (lastCall' = "threw" /\ UNCHANGED queue)]_vars
  /\ [][LocalPromise = "undefined" =>
          /\ promiseFunctionArray' = promiseFunctionArray
          /\ Len(globalPromise') = Len(globalPromise)
          /\ Len(future') = Len(future)]_vars
  /\ [][lastCall' # lastCall =>
          IF LocalPromise = "undefined"
            THEN lastCall' = "threw"
            ELSE lastCall' = "returned" /\ Len(future') = Len(future) + 1]_vars

\* A call has thrown for want of a constructor while an entry waited in
\* the array and its step on the chain.
C15_Witness ==
  /\ LocalPromise = "undefined"
  /\ lastCall = "threw"
  /\ promiseFunctionArray # <<>>
  /\ \E k \in 1..Len(globalPromise) : globalPromise[k].state = "waiting"

\* The steps of the chain that have not run yet.
WaitingSteps == { k \in 1..Len(globalPromise) : globalPromise[k].state = "waiting" }

\* C16: every submission adds one entry and one step, so the chain has as
\* many steps as there were submissions, the steps that have not run yet
\* are as many as the entries in the array, and every step that has run
\* found an entry to shift off.
C16_StepsMatchEntries ==
  /\ Len(globalPromise) = Len(future)
  /\ Cardinality(WaitingSteps) = Len(promiseFunctionArray)
  /\ \A k \in 1..Len(globalPromise) :
       k \notin WaitingSteps =>
         (globalPromise[k].entry \in Submitted /\ globalPromise[k].state # "rejected")

\* Two steps wait for two entries in the array, and a step that has run
\* shifted off the entry of another call than the one that added it.
C16_Witness ==
  /\ Cardinality(WaitingSteps) >= 2
  /\ \E k \in 1..Len(globalPromise) :
       k \notin WaitingSteps /\ globalPromise[k].entry # k

\* How often entry e occurs in the sequence arr.
Occurrences(arr, e) == Cardinality({ i \in 1..Len(arr) : arr[i] = e })

\* C17: conservation of entries.  Every submitted entry is either waiting,
\* once, in the array, or has been invoked, once (executing until its unit
\* reports, completed after); it comes into the array only in the step of
\* its submission and leaves it only from the head, in the step that
\* invokes it.
C17_Conservation ==
  /\ [](\A e \in Submitted :
          /\ Occurrences(promiseFunctionArray, e) + Invocations(e) = 1
          /\ Reported(e) => Invoked(e))
  /\ [][\A e \in 1..Len(future') :
          /\ (InSeq(promiseFunctionArray', e) /\ ~InSeq(promiseFunctionArray, e)) =>
               (e = Len(future') /\ Len(future') = Len(future) + 1)
          /\ (InSeq(promiseFunctionArray, e) /\ ~InSeq(promiseFunctionArray', e)) =>
               /\ e = Head(promiseFunctionArray)
               /\ promiseFunctionArray' = Tail(promiseFunctionArray)
               /\ ~RunIn(log, e) /\ RunIn(log', e)]_vars

\* One entry waits, one is executing and one is completed.
C17_Witness ==
  \E w, x, c \in Submitted :
    /\ InArray(w) /\ ~Invoked(w)
    /\ Executing(x) /\ ~InArray(x)
    /\ Reported(c) /\ ~InArray(c)

\* C18 as stated: the promise of an entry is settled when the driver is
\* signalled.  The promise of a step is resolved only if the promise of the
\* entry it invoked is settled, and when a step has invoked its unit the
\* promise of the entry invoked by the step before it is settled, with that
\* unit's outcome.  It fails for a unit that resolves with a thenable.
C18_SettledBeforeNext ==
  \A k \in 1..Len(globalPromise) :
    /\ globalPromise[k].state = "resolved" => Settled(globalPromise[k].entry)
    /\ (k > 1 /\ globalPromise[k].state # "waiting") =>
         LET prev == globalPromise[k - 1].entry
         IN Settled(prev) /\ future[prev] = OutcomeOf(fn[prev])

\* The unit of entry e calls resolve with a thenable.
ResolvesWithThenable(e) == fn[e].call = "resolve" /\ Passed(fn[e]).then # "none"

\* What the promise of entry e is once its unit has reported: settled with
\* the unit's outcome, or, after resolve with a thenable, locked to that
\* thenable or settled the way the thenable ended.
ResolvedAsReported(e) ==
  IF ResolvesWithThenable(e)
    THEN \/ future[e] = [state |-> "locked", value |-> fn[e].value, then |-> fn[e].then]
         \/ fn[e].then # "never" /\ future[e] = [state |-> fn[e].then, value |-> fn[e].value]
    ELSE future[e] = OutcomeOf(fn[e])

\* C18, amended: the promise of an entry is resolved when the driver is
\* signalled, that is, no longer open to the unit: settled with the unit's
\* outcome when the unit called reject or called resolve with a plain value,
\* locked to the thenable when the unit called resolve with a thenable.  So
\* when a step has invoked its unit, the promise of the entry invoked by the
\* step before it is settled unless that unit resolved it with a thenable
\* that has not ended yet.
C18_ResolvedBeforeNext ==
  \A k \in 1..Len(globalPromise) :
    /\ globalPromise[k].state = "resolved" => ResolvedAsReported(globalPromise[k].entry)
    /\ (k > 1 /\ globalPromise[k].state # "waiting") =>
         LET prev == globalPromise[k - 1].entry
         IN /\ ResolvedAsReported(prev)
            /\ ~ResolvesWithThenable(prev) => Settled(prev)

\* A unit is executing while the promise of the entry invoked before it is
\* still locked to a thenable; the promise of an earlier entry, whose unit
\* reported a plain value, is settled.
C18_Witness ==
  \E k \in 3..Len(globalPromise) :
    /\ globalPromise[k].state = "running"
    /\ future[globalPromise[k - 1].entry].state = "locked"
    /\ ~ResolvesWithThenable(globalPromise[k - 2].entry)
    /\ Settled(globalPromise[k - 2].entry)

\* Where entry e stands in the sequence arr.
PosIn(arr, e) == CHOOSE i \in 1..Len(arr) : arr[i] = e

\* C19: two entries that wait in the array keep their relative order as
\* long as both wait; the array changes only by a push appending the new
\* entry at the tail, an unshift putting it at the head, or a driver step
\* taking the head off.
C19_OrderKept ==
  /\ [][\A a, b \in Submitted :
          (/\ InSeq(promiseFunctionArray, a) /\ InSeq(promiseFunctionArray, b)
           /\ InSeq(promiseFunctionArray', a) /\ InSeq(promiseFunctionArray', b)) =>
            (PosIn(promiseFunctionArray, a) < PosIn(promiseFunctionArray, b)
               <=> PosIn(promiseFunctionArray', a) < PosIn(promiseFunctionArray', b))]_vars
  /\ [][promiseFunctionArray' # promiseFunctionArray =>
          IF Len(future') > Len(future)
            THEN IF how'[Len(future')] = "push"
                   THEN promiseFunctionArray' = Append(promiseFunctionArray, Len(future'))
                   ELSE promiseFunctionArray' = <<Len(future')>> \o promiseFunctionArray
            ELSE promiseFunctionArray' = Tail(promiseFunctionArray)]_vars

\* After pushes, an unshift and a driver step, a pushed entry and an
\* unshifted entry, submitted later, wait in the array, the unshifted one
\* first.
C19_Witness ==
  \E q, u \in Submitted :
    /\ q < u
    /\ how[q] = "push" /\ how[u] = "unshift"
    /\ InArray(q) /\ InArray(u)
    /\ PosIn(promiseFunctionArray, u) < PosIn(promiseFunctionArray, q)
    /\ \E x \in Submitted : Invoked(x)

\* A handle call by entry e that is not its first.
CallsAgain(e) == handleCalls[e] >= 1 /\ handleCalls'[e] > handleCalls[e]

\* Entry x was started, by a run event, before the i-th event of the log.
StartedBefore(x, i) == \E j \in 1..(i - 1) : log[j] = Event("run", x)

\* C12: a unit that calls its handles more than once, the same handle or
\* both, settles its Future once only: the Future keeps the outcome of the
\* first call, a further call changes no Future at all, and a settled Future
\* never changes again.
C12_SettleOnce ==
  /\ [](\A e \in Submitted : Reported(e) => future[e] = OutcomeOf(fn[e]))
  /\ [][\A e \in Submitted : CallsAgain(e) => future' = future]_vars
  /\ [][\A e \in Submitted :
          future[e].state # "pending" => future'[e] = future[e]]_vars

\* A unit has called a handle twice and its Future holds the first outcome.
C12_Witness ==
  \E e \in Submitted :
    /\ handleCalls[e] = 2
    /\ future[e] = OutcomeOf(fn[e])
    /\ \E i \in 1..Len(log) : log[i] = Event("again", e)

\* C20: the driver advances by exactly one step per entry however often a
\* unit calls its handles: as many steps are resolved as entries have
\* reported, every step still waiting has its entry in the list, at most one
\* unit is executing, and a further handle call changes neither the steps nor
\* the list nor what has been started.
C20_OneStepPerEntry ==
  /\ [](Cardinality({k \in 1..Len(globalPromise) : globalPromise[k].state = "resolved"})
          = Cardinality({e \in Submitted : Reported(e)}))
  /\ [](Cardinality(WaitingSteps) = Len(promiseFunctionArray))
  /\ [](Cardinality({e \in Submitted : Executing(e)}) <= 1)
  /\ [][\A e \in Submitted :
          CallsAgain(e) =>
            /\ globalPromise' = globalPromise
            /\ promiseFunctionArray' = promiseFunctionArray
            /\ Events("run")' = Events("run")]_vars

\* A unit called a handle again after a later unit had been started, while
\* that later unit is still executing and another entry still waits.
C20_Witness ==
  \E e \in Submitted, x \in Submitted, i \in 1..Len(log) :
    /\ x # e
    /\ log[i] = Event("again", e)
    /\ StartedBefore(e, i)
    /\ StartedBefore(x, i)
    /\ Executing(x)
    /\ promiseFunctionArray # <<>>


\* Entry e holds a unit that throws, and the driver has invoked it.
Thrown(e) == e \in Submitted /\ Throws(fn[e]) /\ Invoked(e)

\* C21: when a unit throws out of its invocation before calling a handle,
\* its step is rejected instead of resolved: the entry's Future stays pending,
\* no entry is started after it (those waiting stay in the array, and those
\* submitted later join them, their Futures pending), no driver step can run
\* any more, and push and unshift still take submissions.
C21_ThrowStalls ==
  /\ [](\A e \in Submitted :
          Thrown(e) =>
            /\ future[e].state = "pending"
            /\ globalPromise[StepOf(e)].state = "rejected"
            /\ \A x \in Submitted : Invoked(x) => RunAt(x) <= RunAt(e)
            /\ \A x \in Submitted :
                 ~Invoked(x) => (InSeq(promiseFunctionArray, x) /\ future[x].state = "pending")
            /\ ~ENABLED DriverStep
            /\ Len(future) < MaxEntries => (ENABLED Push /\ ENABLED Unshift))
  /\ [][(\E e \in Submitted : Thrown(e)) =>
          /\ Events("run")' = Events("run")
          /\ \A x \in Submitted : future'[x] = future[x]
          /\ Len(promiseFunctionArray') >= Len(promiseFunctionArray)]_vars

\* A unit has thrown while another entry waited in the array, and a further
\* entry was submitted after the throw: both are still in the array.
C21_Witness ==
  \E e \in Submitted, x \in Submitted, y \in Submitted :
    /\ Thrown(e)
    /\ SubAt(x) < RunAt(e)
    /\ SubAt(y) > RunAt(e)
    /\ ~Invoked(x)
    /\ lastCall = "returned"
    /\ InSeq(promiseFunctionArray, x)
    /\ InSeq(promiseFunctionArray, y)


\* The steps of each instance whose unit has been invoked and has not
\* called a handle yet.
Running == { k \in 1..Len(globalPromise) : globalPromise[k].state = "running" }
OtherRunning ==
  { k \in 1..Len(other.globalPromise) : other.globalPromise[k].state = "running" }

\* C22: two queue instances are independent.  No step changes both: what
\* one queue is given, starts or completes leaves the other's array, chain
\* and promises as they are.  Each queue runs at most one unit of its own,
\* and whenever a queue has an entry waiting and no unit of its own
\* executing, its driver can start that entry and it takes submissions,
\* whatever the other queue is doing, a unit of it executing or stalled
\* included.
C22_Independent ==
  /\ [][other' # other => UNCHANGED queue]_vars
  /\ [][queue' # queue => other' = other]_vars
  /\ [](Cardinality(Running) <= 1 /\ Cardinality(OtherRunning) <= 1)
  /\ []((promiseFunctionArray # <<>> /\ Running = {}) => ENABLED DriverStep)
  /\ []((other.promiseFunctionArray # <<>> /\ OtherRunning = {}) => ENABLED OtherDriverStep)
  /\ [](Len(future) < MaxEntries => (ENABLED Push /\ ENABLED Unshift))
  /\ [](Len(other.future) < MaxEntriesPair => (ENABLED OtherPush /\ ENABLED OtherUnshift))

\* A unit of each queue is executing at the same time, and each queue has a
\* further entry waiting behind it.
C22_Witness ==
  /\ \E e \in Submitted : Executing(e)
  /\ OtherRunning # {}
  /\ promiseFunctionArray # <<>>
  /\ other.promiseFunctionArray # <<>>

====
